---- MODULE Spec2Model ----
(***************************************************************************)
(* job_throughput.py: the workload generator (generate_task_list) and the  *)
(* time-bounded admission loop of main(), with the cluster (sbatch,        *)
(* squeue, sacct) as a nondeterministic environment.                       *)
(*                                                                         *)
(* Time is counted in ticks of 1/TicksPerSec second.  A job definition is  *)
(* [nodes, count, durations], durations a sequence of [minutes, ratio].    *)
(***************************************************************************)
EXTENDS Integers, Sequences, FiniteSets

VARIABLES
    pc,                  \* position of main()
    config_queue,        \* the configuration file's queue_name entry
    queue_name,          \* queue_name as load_config returns it
    job_defs,            \* the configuration file's jobs entry
    total_nodes,         \* the configuration file's total_nodes entry
    total_test_seconds,  \* test_hours * 60 * 60, in ticks
    clock,               \* wall-clock time (time.time()), in ticks
    end_time,            \* start_time + total_test_seconds
    task_list,           \* generate_task_list(job_defs)
    task_index,          \* cursor into task_list
    loop_time,           \* the time.time() value the last loop test read
    used_nodes,          \* get_current_used_nodes() of this iteration
    available_nodes,     \* total_nodes - used_nodes
    submitted_jobs,      \* the global list of job_info records
    cluster,             \* cluster-side state of every accepted job, by jobid
    queries,             \* which calls main() has made so far
    iter,                \* what the current loop iteration has done so far
    sacct_result,        \* what the sacct call returned: exit status and lines
    finished_dict,       \* check_jobs_finished(all_jobids), by jobid
    finished_count,      \* M
    sum_Nj_Tj,           \* node-seconds of the completed jobs
    system_throughput,   \* M / T as a fraction <<numerator, denominator>>
    resource_utilization \* percent, as a fraction <<numerator, denominator>>

vars == <<pc, config_queue, queue_name, job_defs, total_nodes,
          total_test_seconds, clock, end_time, task_list, task_index,
          loop_time, used_nodes, available_nodes, submitted_jobs, cluster,
          queries, iter, sacct_result, finished_dict, finished_count,
          sum_Nj_Tj, system_throughput, resource_utilization>>

----------------------------------------------------------------------------
(* Bounds of the model. *)

MaxCount == 3        \* largest count of a generated entry
MaxVariants == 4     \* most duration variants of a generated entry
MaxRatio == 3        \* largest ratio of a duration variant
MaxCallDelay == 1    \* most ticks one squeue or sbatch call takes
TicksPerSec == 2     \* clock resolution
WindowSeconds == 6   \* the nonzero test window of a run, in seconds
MaxNodes == 2        \* the nonzero total_nodes of a run
MaxJobs == 2         \* most records of a run that starts at the metrics

----------------------------------------------------------------------------
(* generate_task_list *)

RECURSIVE SumSeq(_)
SumSeq(s) == IF s = <<>> THEN 0 ELSE s[1] + SumSeq(Tail(s))

Abs(x) == IF x < 0 THEN -x ELSE x

\* int(round(num / den)) for num >= 0, den > 0: Python 3 rounds a half to
\* the even neighbour.
PyRound(num, den) ==
    LET q == num \div den
        r == num % den
    IN  IF 2 * r < den THEN q
        ELSE IF 2 * r > den THEN q + 1
        ELSE IF q % 2 = 0 THEN q ELSE q + 1

Ratios(job_def) ==
    [i \in 1..Len(job_def.durations) |-> job_def.durations[i].ratio]

\* The division by total_ratio (one per variant) and idx = i % len(curr_counts)
\* (one per unit of diff) raise ZeroDivisionError on a zero divisor.
RaisesZeroDivision(job_def) ==
    \/ Len(job_def.durations) > 0 /\ SumSeq(Ratios(job_def)) = 0
    \/ Len(job_def.durations) = 0 /\ job_def.count /= 0

RoundedCounts(job_def) ==
    LET total_ratio == SumSeq(Ratios(job_def))
    IN  [i \in 1..Len(job_def.durations) |->
            PyRound(job_def.count * job_def.durations[i].ratio, total_ratio)]

\* Faulty variant of AdjustFrom: each step moves a count by 2.
RECURSIVE AdjustFromByTwo(_, _, _)
AdjustFromByTwo(curr_counts, diff, i) ==
    IF i >= Abs(diff) THEN curr_counts
    ELSE LET idx == (i % Len(curr_counts)) + 1
             next == IF diff > 0
                        THEN [curr_counts EXCEPT ![idx] = @ + 2]
                     ELSE IF diff < 0 /\ curr_counts[idx] > 0
                        THEN [curr_counts EXCEPT ![idx] = @ - 2]
                     ELSE curr_counts
         IN  AdjustFromByTwo(next, diff, i + 1)

\* One pass of the adjustment loop, i = 0 .. abs(diff) - 1 (idx is 1-based
\* here).
RECURSIVE AdjustFrom(_, _, _)
AdjustFrom(curr_counts, diff, i) ==
    IF i >= Abs(diff) THEN curr_counts
    ELSE LET idx == (i % Len(curr_counts)) + 1
             next == IF diff > 0
                        THEN [curr_counts EXCEPT ![idx] = @ + 1]
                     ELSE IF diff < 0 /\ curr_counts[idx] > 0
                        THEN [curr_counts EXCEPT ![idx] = @ - 1]
                     ELSE curr_counts
         IN  AdjustFrom(next, diff, i + 1)

CurrCounts(job_def) ==
    LET rounded == RoundedCounts(job_def)
        diff == job_def.count - SumSeq(rounded)
    IN  AdjustFrom(rounded, diff, 0)

RECURSIVE Repeat(_, _)
Repeat(x, n) == IF n <= 0 THEN <<>> ELSE <<x>> \o Repeat(x, n - 1)

\* The tasks one entry appends to data: instance_count copies per variant, in
\* variant order.
RECURSIVE EntryTasksFrom(_, _, _)
EntryTasksFrom(job_def, counts, k) ==
    IF k > Len(counts) THEN <<>>
    ELSE Repeat([nodes |-> job_def.nodes,
                 duration |-> job_def.durations[k].minutes], counts[k])
         \o EntryTasksFrom(job_def, counts, k + 1)

EntryTasks(job_def) == EntryTasksFrom(job_def, CurrCounts(job_def), 1)

\* data before the shuffle.
RECURSIVE UnshuffledTasks(_)
UnshuffledTasks(defs) ==
    IF defs = <<>> THEN <<>>
    ELSE EntryTasks(Head(defs)) \o UnshuffledTasks(Tail(defs))

RECURSIVE Orders(_)
Orders(S) ==
    IF S = {} THEN {<<>>}
    ELSE UNION {{<<x>> \o p : p \in Orders(S \ {x})} : x \in S}

\* Faulty variant of Shuffles: positions are drawn with replacement.
ShufflesWithRepeats(data) ==
    {[i \in 1..Len(data) |-> data[f[i]]] :
        f \in [1..Len(data) -> 1..Len(data)]}

\* random.shuffle: every reordering of data is possible.
Shuffles(data) ==
    {[i \in 1..Len(data) |-> data[p[i]]] : p \in Orders(1..Len(data))}

GenerateRaises(defs) == \E k \in 1..Len(defs) : RaisesZeroDivision(defs[k])

\* task_list = generate_task_list(job_defs); an uncaught ZeroDivisionError
\* ends the process.
GenerateTaskList ==
    /\ pc = "generate"
    /\ IF GenerateRaises(job_defs)
          THEN /\ pc' = "crashed"
               /\ UNCHANGED task_list
          ELSE /\ task_list' \in Shuffles(UnshuffledTasks(job_defs))
               /\ pc' = "loop"
    /\ UNCHANGED <<config_queue, queue_name, job_defs, total_nodes,
                   total_test_seconds, clock, end_time, task_index, loop_time,
                   used_nodes, available_nodes, submitted_jobs, cluster,
                   queries, iter, sacct_result, finished_dict, finished_count,
                   sum_Nj_Tj, system_throughput, resource_utilization>>

----------------------------------------------------------------------------
(* The generator on its own: every entry shape within the bounds, alone and *)
(* followed by a second entry.                                             *)

VariantMinutes(i) == 5 * i

GenDurations ==
    UNION {{[i \in 1..n |-> [minutes |-> VariantMinutes(i), ratio |-> r[i]]] :
                r \in [1..n -> 0..MaxRatio]} : n \in 0..MaxVariants}

GenEntries ==
    {[nodes |-> 1, count |-> c, durations |-> d] :
        c \in 0..MaxCount, d \in GenDurations}

TailEntry ==
    [nodes |-> 2, count |-> 1,
     durations |-> <<[minutes |-> VariantMinutes(1), ratio |-> 1]>>]

GenJobDefs ==
    {<<>>} \cup {<<e>> : e \in GenEntries}
           \cup {<<e, TailEntry>> : e \in GenEntries}

\* cfg.get("queue_name", "kshcnormal")
DefaultQueue == [type |-> "str", text |-> "kshcnormal"]

NoQueries ==
    [squeue |-> FALSE, sbatch |-> FALSE, drain |-> FALSE, sacct |-> FALSE]

\* No sacct call yet.
NoResult == [ok |-> FALSE, lines |-> {}]

\* An iteration that has neither queried the capacity nor submitted.
NoIter == [query |-> "none", check |-> "none", submit |-> "none"]

GenInit ==
    /\ pc = "generate"
    /\ job_defs \in GenJobDefs
    /\ config_queue = DefaultQueue
    /\ queue_name = DefaultQueue
    /\ total_nodes = 0
    /\ total_test_seconds = 0
    /\ clock = 0
    /\ end_time = 0
    /\ task_list = <<>>
    /\ task_index = 0
    /\ loop_time = 0
    /\ used_nodes = 0
    /\ available_nodes = 0
    /\ submitted_jobs = <<>>
    /\ cluster = <<>>
    /\ queries = NoQueries
    /\ iter = NoIter
    /\ sacct_result = NoResult
    /\ finished_dict = <<>>
    /\ finished_count = 0
    /\ sum_Nj_Tj = 0
    /\ system_throughput = <<0, 1>>
    /\ resource_utilization = <<0, 1>>

GenSpec == GenInit /\ [][GenerateTaskList]_vars

----------------------------------------------------------------------------
(* Program constants. *)

PacingDelay == 1     \* time.sleep(1)
BackoffMin == 5      \* random.uniform(5, 10)
BackoffMax == 10
SecondsPerMinute == 60
SecondsPerHour == 3600
Percent == 100

----------------------------------------------------------------------------
(* load_config and the set-up of main() *)

\* queue_name before load_config assigns it.
Unset == [type |-> "absent", text |-> ""]

\* cfg.get(key, default)
CfgGet(entry, default) == IF entry.type = "absent" THEN default ELSE entry

\* s.strip() of the strings the model uses.
Strip(s) == IF s \in {"", " ", "   "} THEN "" ELSE s

\* not isinstance(queue_name, str) or not queue_name.strip()
QueueInvalid(q) == q.type /= "str" \/ Strip(q.text) = ""

\* load_config, then start_time and end_time; sys.exit(1) on a bad queue.
LoadConfig ==
    /\ pc = "load"
    /\ queue_name' = CfgGet(config_queue, DefaultQueue)
    /\ IF QueueInvalid(queue_name')
          THEN /\ pc' = "exit"
               /\ UNCHANGED end_time
          ELSE /\ pc' = "generate"
               /\ end_time' = clock + total_test_seconds
    /\ UNCHANGED <<config_queue, job_defs, total_nodes, total_test_seconds,
                   clock, task_list, task_index, loop_time, used_nodes,
                   available_nodes, submitted_jobs, cluster, queries, iter,
                   sacct_result, finished_dict, finished_count, sum_Nj_Tj,
                   system_throughput, resource_utilization>>

----------------------------------------------------------------------------
(* The admission loop of main() *)

num_tasks == Len(task_list)

\* Faulty variant of LoopCondition: the loop test forgets the deadline.
LoopConditionNoDeadline(t) == task_index < num_tasks

\* while time.time() < end_time and task_index < num_tasks
LoopCondition(t) == t < end_time /\ task_index < num_tasks

LoopTest ==
    /\ pc = "loop"
    /\ loop_time' = clock
    /\ pc' = IF LoopCondition(clock) THEN "query" ELSE "after"
    /\ UNCHANGED <<config_queue, queue_name, job_defs, total_nodes,
                   total_test_seconds, clock, end_time, task_list, task_index,
                   used_nodes, available_nodes, submitted_jobs, cluster,
                   queries, iter, sacct_result, finished_dict, finished_count,
                   sum_Nj_Tj, system_throughput, resource_utilization>>

\* Faulty variant of CheckActiveJobs: the exit status is not looked at.
CheckActiveJobsAnyStatus(ok) ==
    {j \in 1..Len(cluster) : cluster[j].state \in {"RUNNING", "PENDING"}}

\* check_active_jobs: the RUNNING and PENDING lines of squeue, none when the
\* command fails.
CheckActiveJobs(ok) ==
    IF ok THEN {j \in 1..Len(cluster) :
                   cluster[j].state \in {"RUNNING", "PENDING"}}
    ELSE {}

RECURSIVE SumNodes(_)
SumNodes(S) ==
    IF S = {} THEN 0
    ELSE LET j == CHOOSE x \in S : TRUE
         IN  cluster[j].nodes + SumNodes(S \ {j})

\* Faulty variant of CountsAsUsed: the state test names the wrong state.
CountsPendingAsUsed(j) == cluster[j].state = "PENDING"

\* get_current_used_nodes
CountsAsUsed(j) == cluster[j].state = "RUNNING"

GetCurrentUsedNodes(ok) ==
    SumNodes({j \in CheckActiveJobs(ok) : CountsAsUsed(j)})

\* Faulty variant of Fits: every task is let through.
FitsAlways(node_count, available) == TRUE

\* Faulty variant of Fits: the test compares with the total, not the free
\* nodes.
FitsTotal(node_count, available) == node_count <= total_nodes

\* if node_count <= available_nodes
Fits(node_count, available) == node_count <= available

QueryCapacity ==
    /\ pc = "query"
    /\ \E d \in 0..MaxCallDelay, failed \in BOOLEAN :
          /\ clock' = clock + d
          /\ used_nodes' = GetCurrentUsedNodes(~failed)
          /\ iter' = [iter EXCEPT
                 !.query = IF failed THEN "failed" ELSE "answered",
                 !.check = IF Fits(task_list[task_index + 1].nodes,
                                   total_nodes - used_nodes')
                              THEN "fits" ELSE "refused"]
    /\ queries' = [queries EXCEPT !.squeue = TRUE]
    /\ available_nodes' = total_nodes - used_nodes'
    /\ pc' = IF Fits(task_list[task_index + 1].nodes, available_nodes')
                THEN "submit" ELSE "backoff"
    /\ UNCHANGED <<config_queue, queue_name, job_defs, total_nodes,
                   total_test_seconds, end_time, task_list, task_index,
                   loop_time, submitted_jobs, cluster, sacct_result,
                   finished_dict, finished_count, sum_Nj_Tj, system_throughput,
                   resource_utilization>>

\* submit_time.strftime("%Y-%m-%d %H:%M:%S"): the instant cut to whole
\* seconds.
FormatTime(t) == t \div TicksPerSec

\* The instant a formatted time names, in ticks.
ParseTime(s) == s * TicksPerSec

\* Faulty variant of JobInfo: the record is filled from the head of the list.
JobInfoOfFirstTask(jobid, task, t) ==
    [jobid |-> jobid, nodes |-> task_list[1].nodes,
     duration |-> task_list[1].duration, submit_time |-> FormatTime(t)]

JobInfo(jobid, task, t) ==
    [jobid |-> jobid, nodes |-> task.nodes, duration |-> task.duration,
     submit_time |-> FormatTime(t)]

\* Faulty variant of Advance: the cursor stays on a submitted task.
NoAdvance(i) == i

\* The cursor after a successful submission.
Advance(i) == i + 1

\* Faulty variant of CursorAfterFailure: a failed task is passed over.
SkipAfterFailure(i) == i + 1

\* The cursor after a failed submission: the else branch only prints.
CursorAfterFailure(i) == i

\* submit_job and the branch on its jobid; sbatch numbers the jobs it accepts.
SubmitJob ==
    /\ pc = "submit"
    /\ \E d \in 0..MaxCallDelay, accepted \in BOOLEAN :
          /\ clock' = clock + d
          /\ IF accepted
                THEN LET task == task_list[task_index + 1]
                         jobid == Len(cluster) + 1
                     IN  /\ cluster' = Append(cluster,
                                [nodes |-> task.nodes, state |-> "PENDING"])
                         /\ submitted_jobs' = Append(submitted_jobs,
                                JobInfo(jobid, task, clock'))
                         /\ task_index' = Advance(task_index)
                ELSE /\ task_index' = CursorAfterFailure(task_index)
                     /\ UNCHANGED <<cluster, submitted_jobs>>
          /\ iter' = [iter EXCEPT
                 !.submit = IF accepted THEN "accepted" ELSE "failed"]
    /\ queries' = [queries EXCEPT !.sbatch = TRUE]
    /\ pc' = "pace"
    /\ UNCHANGED <<config_queue, queue_name, job_defs, total_nodes,
                   total_test_seconds, end_time, task_list, loop_time,
                   used_nodes, available_nodes, sacct_result, finished_dict,
                   finished_count, sum_Nj_Tj, system_throughput,
                   resource_utilization>>

\* Faulty variant of PaceSleep: no pacing sleep.
NoPaceSleep == 0 * TicksPerSec

\* time.sleep(1) after a submission attempt.
PaceSleep == PacingDelay * TicksPerSec

Pace ==
    /\ pc = "pace"
    /\ clock' = clock + PaceSleep
    /\ iter' = NoIter
    /\ pc' = "loop"
    /\ UNCHANGED <<config_queue, queue_name, job_defs, total_nodes,
                   total_test_seconds, end_time, task_list, task_index,
                   loop_time, used_nodes, available_nodes, submitted_jobs,
                   cluster, queries, sacct_result, finished_dict,
                   finished_count, sum_Nj_Tj, system_throughput,
                   resource_utilization>>

\* Faulty variant of BackoffSleeps: the sleep may last twice as long.
BackoffSleepsLong == (BackoffMin * TicksPerSec)..(2 * BackoffMax * TicksPerSec)

\* time.sleep(random.uniform(5, 10)) when the task does not fit.
BackoffSleeps == (BackoffMin * TicksPerSec)..(BackoffMax * TicksPerSec)

Backoff ==
    /\ pc = "backoff"
    /\ \E b \in BackoffSleeps : clock' = clock + b
    /\ iter' = NoIter
    /\ pc' = "loop"
    /\ UNCHANGED <<config_queue, queue_name, job_defs, total_nodes,
                   total_test_seconds, end_time, task_list, task_index,
                   loop_time, used_nodes, available_nodes, submitted_jobs,
                   cluster, queries, sacct_result, finished_dict,
                   finished_count, sum_Nj_Tj, system_throughput,
                   resource_utilization>>

\* Faulty variant of DrainCondition: off by one, and so never true.
DrainConditionStrict(t) == task_index > num_tasks /\ t < end_time

\* if task_index >= num_tasks and time.time() < end_time
DrainCondition(t) == task_index >= num_tasks /\ t < end_time

\* The wait for the rest of the window once every task is submitted.
DrainWait ==
    /\ pc = "after"
    /\ IF DrainCondition(clock)
          THEN LET wait_seconds == end_time - clock
               IN  /\ clock' = IF wait_seconds > 0
                                  THEN clock + wait_seconds ELSE clock
                   /\ queries' = [queries EXCEPT !.drain = TRUE]
          ELSE UNCHANGED <<clock, queries>>
    /\ pc' = "resolve"
    /\ UNCHANGED <<config_queue, queue_name, job_defs, total_nodes,
                   total_test_seconds, end_time, task_list, task_index,
                   loop_time, used_nodes, available_nodes, submitted_jobs,
                   cluster, iter, sacct_result, finished_dict, finished_count,
                   sum_Nj_Tj, system_throughput, resource_utilization>>

----------------------------------------------------------------------------
(* Completion resolution and the metrics *)

\* What sacct prints: one line per job it lists, with the job's state, and
\* step lines (jobid.extern) for some jobs; nothing when the command fails.
SacctLines(ok, listed, steps) ==
    IF ok
       THEN {[jid |-> j, step |-> FALSE, state |-> cluster[j].state] :
                j \in listed}
            \cup {[jid |-> j, step |-> TRUE, state |-> "COMPLETED"] :
                j \in steps}
       ELSE {}

\* Faulty variant of CheckJobsFinished: step lines are not set aside.
CheckJobsFinishedAnyLine(jobids, lines) ==
    [j \in jobids |->
        \E line \in lines : line.jid = j /\ line.state = "COMPLETED"]

\* check_jobs_finished: a job is finished iff a line of its main id says
\* COMPLETED; a job with no such line is not.
CheckJobsFinished(jobids, lines) ==
    [j \in jobids |->
        \E line \in lines :
            ~line.step /\ line.jid = j /\ line.state = "COMPLETED"]

AllJobids == {submitted_jobs[k].jobid : k \in 1..Len(submitted_jobs)}

\* The jobs with step lines: a job that has started has steps, and its
\* extern step ends COMPLETED however the job itself ends.
Started(S) == {j \in S : cluster[j].state /= "PENDING"}

Resolve ==
    /\ pc = "resolve"
    /\ IF AllJobids = {}
          THEN /\ finished_dict' = <<>>
               /\ UNCHANGED <<queries, sacct_result>>
          ELSE /\ \E ok \in BOOLEAN, listed \in SUBSET AllJobids :
                     /\ sacct_result' =
                            [ok |-> ok,
                             lines |-> SacctLines(ok, listed,
                                                  Started(listed))]
                     /\ finished_dict' =
                            CheckJobsFinished(AllJobids, sacct_result'.lines)
               /\ queries' = [queries EXCEPT !.sacct = TRUE]
    /\ pc' = "metrics"
    /\ UNCHANGED <<config_queue, queue_name, job_defs, total_nodes,
                   total_test_seconds, clock, end_time, task_list, task_index,
                   loop_time, used_nodes, available_nodes, submitted_jobs,
                   cluster, iter, finished_count, sum_Nj_Tj, system_throughput,
                   resource_utilization>>

\* finished_job_details, as positions of submitted_jobs.
FinishedJobs ==
    {k \in 1..Len(submitted_jobs) : finished_dict[submitted_jobs[k].jobid]}

RECURSIVE NodeSeconds(_)
NodeSeconds(S) ==
    IF S = {} THEN 0
    ELSE LET k == CHOOSE x \in S : TRUE
         IN  submitted_jobs[k].nodes
                 * (submitted_jobs[k].duration * SecondsPerMinute)
             + NodeSeconds(S \ {k})

\* M / T with T = total_test_seconds / 3600, 0 unless T > 0.
Throughput(M) ==
    IF total_test_seconds > 0
       THEN <<M * SecondsPerHour * TicksPerSec, total_test_seconds>>
       ELSE <<0, 1>>

\* Faulty variant of Utilization: the elapsed time stands for the window.
UtilizationOverElapsed(sum) ==
    IF total_nodes * clock > 0
       THEN <<sum * Percent * TicksPerSec, total_nodes * clock>>
       ELSE <<0, 1>>

\* (sum_Nj_Tj / (N_total * T_total)) * 100, 0 unless N_total * T_total > 0.
Utilization(sum) ==
    IF total_nodes * total_test_seconds > 0
       THEN <<sum * Percent * TicksPerSec, total_nodes * total_test_seconds>>
       ELSE <<0, 1>>

ComputeMetrics ==
    /\ pc = "metrics"
    /\ finished_count' = Cardinality(FinishedJobs)
    /\ sum_Nj_Tj' = NodeSeconds(FinishedJobs)
    /\ system_throughput' = Throughput(finished_count')
    /\ resource_utilization' = Utilization(sum_Nj_Tj')
    /\ pc' = "done"
    /\ UNCHANGED <<config_queue, queue_name, job_defs, total_nodes,
                   total_test_seconds, clock, end_time, task_list, task_index,
                   loop_time, used_nodes, available_nodes, submitted_jobs,
                   cluster, queries, iter, sacct_result, finished_dict>>

----------------------------------------------------------------------------
(* The cluster: an accepted job waits, runs and ends on its own schedule. *)

Running == {"loop", "query", "submit", "pace", "backoff", "after", "resolve"}

JobStarts ==
    /\ pc \in Running
    /\ \E j \in 1..Len(cluster) :
          /\ cluster[j].state = "PENDING"
          /\ cluster' = [cluster EXCEPT ![j].state = "RUNNING"]
    /\ UNCHANGED <<pc, config_queue, queue_name, job_defs, total_nodes,
                   total_test_seconds, clock, end_time, task_list, task_index,
                   loop_time, used_nodes, available_nodes, submitted_jobs,
                   queries, iter, sacct_result, finished_dict, finished_count,
                   sum_Nj_Tj, system_throughput, resource_utilization>>

JobEnds ==
    /\ pc \in Running
    /\ \E j \in 1..Len(cluster), how \in {"COMPLETED", "FAILED"} :
          /\ cluster[j].state = "RUNNING"
          /\ cluster' = [cluster EXCEPT ![j].state = how]
    /\ UNCHANGED <<pc, config_queue, queue_name, job_defs, total_nodes,
                   total_test_seconds, clock, end_time, task_list, task_index,
                   loop_time, used_nodes, available_nodes, submitted_jobs,
                   queries, iter, sacct_result, finished_dict, finished_count,
                   sum_Nj_Tj, system_throughput, resource_utilization>>

----------------------------------------------------------------------------
(* A run of main() *)

QueueChoices ==
    {[type |-> "absent", text |-> ""],
     [type |-> "number", text |-> "64"],
     [type |-> "str", text |-> ""],
     [type |-> "str", text |-> "   "],
     DefaultQueue}

OneVariant == <<[minutes |-> 5, ratio |-> 1]>>
TwoVariants == <<[minutes |-> 5, ratio |-> 1], [minutes |-> 10, ratio |-> 1]>>
ZeroRatio == <<[minutes |-> 5, ratio |-> 0]>>

\* Mixes whose runs are short: every queue_name entry is tried with them.
LightJobDefs ==
    { <<>>,
      <<[nodes |-> 1, count |-> 0, durations |-> OneVariant]>>,
      <<[nodes |-> 1, count |-> 1, durations |-> OneVariant]>> }

MainJobDefs ==
    LightJobDefs \cup
    { <<[nodes |-> 1, count |-> 1, durations |-> ZeroRatio]>>,
      <<[nodes |-> MaxNodes, count |-> 2, durations |-> OneVariant]>>,
      <<[nodes |-> 1, count |-> 2, durations |-> TwoVariants]>>,
      <<[nodes |-> 1, count |-> 1, durations |-> OneVariant],
        [nodes |-> MaxNodes + 1, count |-> 1, durations |-> OneVariant]>> }

Init ==
    /\ pc = "load"
    /\ \/ config_queue \in QueueChoices /\ job_defs \in LightJobDefs
       \/ config_queue = DefaultQueue /\ job_defs \in MainJobDefs
    /\ queue_name = Unset
    /\ total_nodes \in {0, MaxNodes}
    /\ total_test_seconds \in {0, WindowSeconds * TicksPerSec}
    /\ clock = 0
    /\ end_time = 0
    /\ task_list = <<>>
    /\ task_index = 0
    /\ loop_time = 0
    /\ used_nodes = 0
    /\ available_nodes = 0
    /\ submitted_jobs = <<>>
    /\ cluster = <<>>
    /\ queries = NoQueries
    /\ iter = NoIter
    /\ sacct_result = NoResult
    /\ finished_dict = <<>>
    /\ finished_count = 0
    /\ sum_Nj_Tj = 0
    /\ system_throughput = <<0, 1>>
    /\ resource_utilization = <<0, 1>>

Step ==
    \/ LoadConfig
    \/ GenerateTaskList
    \/ LoopTest
    \/ QueryCapacity
    \/ SubmitJob
    \/ Pace
    \/ Backoff
    \/ DrainWait
    \/ Resolve
    \/ ComputeMetrics

Next == Step \/ JobStarts \/ JobEnds

Spec == Init /\ [][Next]_vars

\* The process is scheduled whenever it can take a step.
FairSpec == Spec /\ WF_vars(Step)

----------------------------------------------------------------------------
(* Runs in which the cluster comes to run more nodes than total_nodes: two  *)
(* jobs of total_nodes nodes each, both let through while the earlier was   *)
(* still pending, and a task that asks for no node.                        *)

DriftJobDefs ==
    { <<[nodes |-> MaxNodes, count |-> 2, durations |-> OneVariant],
        [nodes |-> 0, count |-> 1, durations |-> OneVariant]>> }

DriftInit ==
    /\ pc = "load"
    /\ config_queue = DefaultQueue
    /\ job_defs \in DriftJobDefs
    /\ queue_name = Unset
    /\ total_nodes = MaxNodes
    /\ total_test_seconds = WindowSeconds * TicksPerSec
    /\ clock = 0
    /\ end_time = 0
    /\ task_list = <<>>
    /\ task_index = 0
    /\ loop_time = 0
    /\ used_nodes = 0
    /\ available_nodes = 0
    /\ submitted_jobs = <<>>
    /\ cluster = <<>>
    /\ queries = NoQueries
    /\ iter = NoIter
    /\ sacct_result = NoResult
    /\ finished_dict = <<>>
    /\ finished_count = 0
    /\ sum_Nj_Tj = 0
    /\ system_throughput = <<0, 1>>
    /\ resource_utilization = <<0, 1>>

DriftSpec == DriftInit /\ [][Next]_vars

----------------------------------------------------------------------------
(* The metrics on their own: main() at line 381 after a run that submitted  *)
(* every task of its list, one second apart, and resolved the outcomes.    *)
(* The run ended on the window end, or one pacing sleep after it.  The     *)
(* last case is the run of the specification's worked example.             *)

MetricsTasks(n, node_limit) ==
    [1..n -> [nodes : 0..node_limit,
              duration : {VariantMinutes(1), VariantMinutes(2)}]]

Outcomes(n) == [1..n -> {"COMPLETED", "FAILED"}]

ExampleRun ==
    [tasks |-> [k \in 1..4 |->
                    [nodes |-> <<1, 2, 1, 2>>[k], duration |-> 10]],
     total_nodes |-> 8,
     total_test_seconds |-> 1 * SecondsPerHour * TicksPerSec]

MetricsInputs ==
    {[tasks |-> <<>>, total_nodes |-> N, total_test_seconds |-> 0] :
        N \in {0, MaxNodes}}
    \cup UNION {{[tasks |-> t, total_nodes |-> N,
                  total_test_seconds |-> WindowSeconds * TicksPerSec] :
                   t \in MetricsTasks(n, N)} :
                        n \in 0..MaxJobs, N \in {0, MaxNodes}}
    \cup {ExampleRun}

MetricsInit ==
    \E in \in MetricsInputs :
        LET n == Len(in.tasks)
        IN  \E late \in {FALSE, n > 0 /\ in.total_test_seconds > 0} :
            \E outcome \in Outcomes(n) :
            LET last == in.total_test_seconds
                            + (IF late THEN PaceSleep ELSE 0)
                submit_tick(k) == IF late THEN last - (n - k + 1) * PaceSleep
                                  ELSE (k - 1) * PaceSleep
            IN  /\ pc = "metrics"
                /\ config_queue = DefaultQueue
                /\ queue_name = DefaultQueue
                /\ job_defs =
                      [k \in 1..n |->
                          [nodes |-> in.tasks[k].nodes, count |-> 1,
                           durations |->
                              <<[minutes |-> in.tasks[k].duration,
                                 ratio |-> 1]>>]]
                /\ total_nodes = in.total_nodes
                /\ total_test_seconds = in.total_test_seconds
                /\ clock = last
                /\ end_time = in.total_test_seconds
                /\ task_list = in.tasks
                /\ task_index = n
                /\ loop_time = IF late THEN last ELSE n * PaceSleep
                /\ used_nodes = 0
                /\ available_nodes = IF n > 0 THEN in.total_nodes ELSE 0
                /\ submitted_jobs =
                      [k \in 1..n |-> JobInfo(k, in.tasks[k], submit_tick(k))]
                /\ cluster =
                      [k \in 1..n |->
                          [nodes |-> in.tasks[k].nodes, state |-> outcome[k]]]
                /\ queries =
                      [squeue |-> n > 0, sbatch |-> n > 0,
                       drain |-> ~late /\ n * PaceSleep < in.total_test_seconds,
                       sacct |-> n > 0]
                /\ iter = NoIter
                /\ sacct_result =
                      IF n > 0
                         THEN [ok |-> TRUE,
                               lines |-> SacctLines(TRUE, 1..n, Started(1..n))]
                         ELSE NoResult
                /\ finished_dict =
                      IF n > 0
                         THEN CheckJobsFinished(1..n, sacct_result.lines)
                         ELSE <<>>
                /\ finished_count = 0
                /\ sum_Nj_Tj = 0
                /\ system_throughput = <<0, 1>>
                /\ resource_utilization = <<0, 1>>

MetricsSpec == MetricsInit /\ [][ComputeMetrics]_vars

----------------------------------------------------------------------------
(* Properties of generate_task_list, checked under GenSpec *)

RECURSIVE TotalCount(_)
TotalCount(defs) ==
    IF defs = <<>> THEN 0 ELSE Head(defs).count + TotalCount(Tail(defs))

\* The tasks of task_list with this node count and duration.
CountTasks(nodes, minutes) ==
    Cardinality({i \in 1..Len(task_list) :
                    task_list[i] = [nodes |-> nodes, duration |-> minutes]})

AllRatiosZero(job_def) ==
    /\ Len(job_def.durations) > 0
    /\ \A i \in 1..Len(job_def.durations) : job_def.durations[i].ratio = 0

\* C1: the task list generate_task_list returns is as long as the sum of the
\* entries' counts.
C1_CountConservation ==
    pc = "loop" => Len(task_list) = TotalCount(job_defs)

\* C6: a duration variant of ratio 0 has no task in the returned list.
C6_ZeroRatioNoInstances ==
    pc = "loop" =>
        \A k \in 1..Len(job_defs) : \A i \in 1..Len(job_defs[k].durations) :
            job_defs[k].durations[i].ratio = 0 =>
                CountTasks(job_defs[k].nodes,
                           job_defs[k].durations[i].minutes) = 0

\* C7: with an entry whose ratios are all 0, generate_task_list returns
\* normally and the list holds no task of that entry.
C7_AllZeroRatiosNoTasks ==
    \A k \in 1..Len(job_defs) :
        (AllRatiosZero(job_defs[k]) /\ pc /= "generate") =>
            /\ pc = "loop"
            /\ \A i \in 1..Len(job_defs[k].durations) :
                  CountTasks(job_defs[k].nodes,
                             job_defs[k].durations[i].minutes) = 0

Occurrences(seq, t) == Cardinality({i \in 1..Len(seq) : seq[i] = t})

\* C13: the returned list holds the tasks built before the shuffle, each as
\* often as there: for every entry and variant, the variant's adjusted count
\* of tasks with the entry's node count and the variant's minutes.
C13_ShuffleKeepsMultiset ==
    pc = "loop" =>
        LET data == UnshuffledTasks(job_defs)
        IN  /\ Len(task_list) = Len(data)
            /\ \A i \in 1..Len(data) :
                  Occurrences(task_list, data[i]) = Occurrences(data, data[i])
            /\ \A k \in 1..Len(job_defs) :
                  LET counts == CurrCounts(job_defs[k])
                  IN  \A i \in 1..Len(job_defs[k].durations) :
                          CountTasks(job_defs[k].nodes,
                                     job_defs[k].durations[i].minutes)
                              = counts[i]

\* The shuffle returned a list of three or more tasks in another order.
C13_Witness ==
    /\ pc = "loop"
    /\ Len(task_list) >= 3
    /\ task_list /= UnshuffledTasks(job_defs)

OneToOne(job_def) ==
    /\ Len(job_def.durations) = 2
    /\ job_def.durations[1].ratio = job_def.durations[2].ratio
    /\ job_def.durations[1].ratio > 0

VariantGap(job_def) ==
    Abs(CountTasks(job_def.nodes, job_def.durations[1].minutes)
        - CountTasks(job_def.nodes, job_def.durations[2].minutes))

\* C14: for an entry of two variants with equal nonzero ratios,
\* generate_task_list returns and the numbers of tasks of the two variants
\* differ by at most 1.
C14_EvenSplit ==
    \A k \in 1..Len(job_defs) :
        (OneToOne(job_defs[k]) /\ pc /= "generate") =>
            (pc = "loop" /\ VariantGap(job_defs[k]) <= 1)

\* An odd count of three or more is split in two: the halves round to the
\* even neighbour and the adjustment takes one back.
C14_Witness ==
    /\ pc = "loop"
    /\ \E k \in 1..Len(job_defs) :
          /\ OneToOne(job_defs[k])
          /\ job_defs[k].count >= 3
          /\ job_defs[k].count % 2 = 1
          /\ VariantGap(job_defs[k]) = 1

----------------------------------------------------------------------------
(* Properties of a run, checked under Spec and FairSpec *)

InFlight == {j \in 1..Len(cluster) : cluster[j].state \in {"PENDING", "RUNNING"}}
NowRunning == {j \in 1..Len(cluster) : cluster[j].state = "RUNNING"}

\* C2 as claimed: the jobs submitted and not yet ended, pending or running,
\* never hold more than total_nodes nodes together.
C2_InFlightWithinCapacity == SumNodes(InFlight) <= total_nodes

\* C2 as amended: when an answered capacity query lets the task at the cursor
\* through, the jobs running at that moment and the task together need at
\* most total_nodes nodes (pending jobs are not counted).
C2_AdmitWithinRunning ==
    [][(pc = "query" /\ pc' = "submit" /\ iter'.query = "answered") =>
          task_list[task_index + 1].nodes + SumNodes(NowRunning)
              <= total_nodes]_vars

\* A task is let through while a job of the run is seen running.
C2_Witness ==
    pc = "submit" /\ iter.query = "answered" /\ used_nodes > 0

LateRecords ==
    {k \in 1..Len(submitted_jobs) :
        ParseTime(submitted_jobs[k].submit_time) >= end_time}

\* C3 as claimed: every record's submit time is before the window end.
C3_SubmitBeforeDeadline == LateRecords = {}

\* C3 as amended: the iteration that records a job passed the deadline test,
\* and the submit time is later than that test by at most the time the
\* capacity query and the submission call took.
C3_SubmitWithinCallTime ==
    /\ \A k \in 1..Len(submitted_jobs) :
          ParseTime(submitted_jobs[k].submit_time)
              < end_time + 2 * MaxCallDelay
    /\ iter.submit = "accepted" =>
          /\ loop_time < end_time
          /\ ParseTime(submitted_jobs[Len(submitted_jobs)].submit_time)
                <= loop_time + 2 * MaxCallDelay

\* A job is recorded at or after the window end.
C3_Witness == LateRecords /= {} /\ iter.submit = "accepted"

\* The task the current iteration looked at.
IterTask ==
    IF iter.submit = "accepted" THEN task_list[task_index]
    ELSE task_list[task_index + 1]

\* C4: a submission is issued only after this iteration's capacity query,
\* and only when the task at the cursor fits total_nodes - used_nodes; an
\* iteration whose check fails submits nothing.
C4_SubmitOnlyAfterCheck ==
    /\ (pc = "submit" \/ iter.submit /= "none") =>
          /\ iter.query /= "none"
          /\ iter.check = "fits"
          /\ available_nodes = total_nodes - used_nodes
          /\ IterTask.nodes <= total_nodes - used_nodes
    /\ iter.check = "refused" => (pc = "backoff" /\ iter.submit = "none")

\* A job is accepted in an iteration that saw nodes in use.
C4_Witness == iter.submit = "accepted" /\ used_nodes > 0

\* C5: there are never more records than tasks.
C5_RecordsWithinTaskList == Len(submitted_jobs) <= Len(task_list)

\* Every task of a list of several is recorded by the end of the run.
C5_Witness ==
    /\ pc = "done"
    /\ Len(task_list) > 1
    /\ Len(submitted_jobs) = Len(task_list)

BadConfig ==
    \/ job_defs = <<>>
    \/ config_queue.type = "absent"
    \/ QueueInvalid(config_queue)

\* C8: with an empty job list or a missing or invalid queue_name the run
\* makes no capacity query, no submission and no drain wait.
C8_BadConfigStopsRun ==
    BadConfig => (~queries.squeue /\ ~queries.sbatch /\ ~queries.drain)

Finished == {"resolve", "metrics", "done"}

\* C9: completion resolution starts only at or after the window end; with
\* an empty task list there is no capacity query, no submission and no
\* record, the window is waited out and the throughput is 0.
C9_HoldUntilWindowEnd ==
    /\ pc \in Finished => clock >= end_time
    /\ (pc \in Finished /\ task_list = <<>>) =>
          /\ ~queries.squeue /\ ~queries.sbatch
          /\ submitted_jobs = <<>>
          /\ total_test_seconds > 0 => (queries.drain /\ clock = end_time)
    /\ (pc = "done" /\ task_list = <<>>) => system_throughput[1] = 0

\* The cursor reached the end of a nonempty list with time left, and the
\* rest of the window was waited out.
C9_Witness ==
    /\ pc = "resolve"
    /\ queries.drain
    /\ Len(task_list) > 0
    /\ task_index = Len(task_list)
    /\ loop_time < end_time
    /\ clock = end_time

\* C10: a run that enters the admission loop reaches the end of main().
C10_RunReachesFinished == (pc = "loop") ~> (pc = "done")

\* A run ends by window expiry with submissions tried and none accepted.
C10_Witness ==
    /\ pc = "done"
    /\ queries.sbatch
    /\ submitted_jobs = <<>>
    /\ task_index < Len(task_list)

\* C15: an answered capacity query gives the nodes of the running jobs as
\* used (pending jobs add nothing); a failed one gives 0, the loop goes on,
\* and the task at the cursor is let through exactly when it needs no more
\* than total_nodes.
C15_UsedCountsRunningOnly ==
    [][(pc = "query" /\ pc' /= "query") =>
          /\ pc' \in {"submit", "backoff"}
          /\ iter'.query = "answered" => used_nodes' = SumNodes(NowRunning)
          /\ iter'.query = "failed" =>
                /\ used_nodes' = 0
                /\ (pc' = "submit") <=>
                      (task_list[task_index + 1].nodes <= total_nodes)]_vars

\* A failed query lets through a task that the running jobs leave no room
\* for.
C15_Witness ==
    /\ pc = "submit"
    /\ iter.query = "failed"
    /\ used_nodes = 0
    /\ SumNodes(NowRunning) + task_list[task_index + 1].nodes > total_nodes

\* C16: a failed submission leaves the cursor and the records as they were
\* and ends in the pacing sleep; the cursor moves only by an accepted
\* submission, one task at a time; the loop goes on to the task at the cursor
\* whenever the deadline test reads a time before the window end, and leaves
\* a task unsubmitted only when it reads a time at or after it.
C16_FailureKeepsTask ==
    [][/\ (pc = "submit" /\ iter'.submit = "failed") =>
             /\ task_index' = task_index
             /\ submitted_jobs' = submitted_jobs
             /\ pc' = "pace"
       /\ task_index' /= task_index =>
             /\ pc = "submit"
             /\ iter'.submit = "accepted"
             /\ task_index' = task_index + 1
       /\ (pc = "loop" /\ pc' /= "loop") =>
             /\ (clock < end_time /\ task_index < num_tasks) => pc' = "query"
             /\ (pc' = "after" /\ task_index < num_tasks) =>
                   clock >= end_time]_vars

\* The first task is up for submission again after two or more failed
\* attempts (nothing was accepted, so no query refused it).
C16_Witness ==
    /\ pc = "submit"
    /\ task_index = 0
    /\ cluster = <<>>
    /\ queries.sbatch
    /\ clock > PaceSleep + 3 * MaxCallDelay

Max(a, b) == IF a > b THEN a ELSE b

\* C17: the available-node value of an iteration is never negative, and
\* the task at the cursor is let through exactly when it fits the free
\* nodes counted from 0 upwards, max(0, total_nodes - used_nodes).
C17_AvailableNeverNegative ==
    iter.query /= "none" =>
        /\ available_nodes >= 0
        /\ (iter.check = "fits") <=>
              (IterTask.nodes <= Max(0, total_nodes - used_nodes))

\* The longest time from one deadline test to the next: the capacity query
\* and the longest backoff sleep, or both calls and the pacing sleep.  It is
\* the longest backoff sleep when the calls take no time.
IterationTime ==
    Max(BackoffMax * TicksPerSec + MaxCallDelay,
        PaceSleep + 2 * MaxCallDelay)

\* C18: an iteration is back at the deadline test within the longest backoff
\* sleep plus the time its calls took, and the loop is left less than that
\* after the window end.
C18_ExitWithinBackoff ==
    [][/\ (pc \in {"pace", "backoff"} /\ pc' = "loop") =>
             clock' - loop_time <= IterationTime
       /\ (pc = "loop" /\ pc' = "after") =>
             clock - end_time < IterationTime]_vars

\* The loop is left as late as can be: the last test before the window end
\* read its last tick, and the query and the longest backoff followed.
C18_Witness ==
    /\ pc = "after"
    /\ task_index < num_tasks
    /\ clock - end_time = IterationTime - 1

\* C19: the records are the tasks before the cursor, in the order of the
\* task list: as many records as the cursor says, the k-th record with the
\* nodes and the duration of the k-th task, and no jobid recorded twice.
C19_RecordsArePrefix ==
    /\ Len(submitted_jobs) = task_index
    /\ task_index <= num_tasks
    /\ \A k \in 1..Len(submitted_jobs) :
          /\ submitted_jobs[k].nodes = task_list[k].nodes
          /\ submitted_jobs[k].duration = task_list[k].duration
    /\ \A k, l \in 1..Len(submitted_jobs) :
          submitted_jobs[k].jobid = submitted_jobs[l].jobid => k = l

\* Two tasks that differ are recorded, the longer one shuffled to the
\* front.
C19_Witness ==
    /\ pc = "pace"
    /\ Len(submitted_jobs) = 2
    /\ submitted_jobs[1].duration > submitted_jobs[2].duration

\* The task at the cursor needs more nodes than the cluster has.
Oversized ==
    /\ pc \notin {"load", "generate"}
    /\ task_index < num_tasks
    /\ task_list[task_index + 1].nodes > total_nodes

\* C20: a record is added only for the task at the cursor, and only in an
\* iteration whose check found that it fits the free nodes; while it does
\* not fit nothing is submitted.  Once the task at the cursor needs more than
\* total_nodes, no submission is tried, no record is added, the cursor stays,
\* and the loop is left only when the deadline test reads a time at or after
\* the window end.
C20_HeadOfLine ==
    [][/\ submitted_jobs' /= submitted_jobs =>
             /\ pc = "submit"
             /\ iter.check = "fits"
             /\ task_list[task_index + 1].nodes <= available_nodes
             /\ Len(submitted_jobs') = Len(submitted_jobs) + 1
             /\ submitted_jobs'[Len(submitted_jobs')].nodes
                   = task_list[task_index + 1].nodes
             /\ submitted_jobs'[Len(submitted_jobs')].duration
                   = task_list[task_index + 1].duration
       /\ iter.check = "refused" =>
             /\ submitted_jobs' = submitted_jobs
             /\ pc' /= "submit"
       /\ Oversized =>
             /\ pc /= "submit" /\ pc' /= "submit"
             /\ submitted_jobs' = submitted_jobs
             /\ task_index' = task_index
             /\ (pc = "loop" /\ pc' = "after") => clock >= end_time]_vars

\* The run ends with nothing submitted: the task at the head needed more
\* than total_nodes, and the one behind it would have fitted.
C20_Witness ==
    /\ pc = "done"
    /\ total_nodes > 0
    /\ num_tasks = 2
    /\ task_list[1].nodes > total_nodes
    /\ task_list[2].nodes <= total_nodes
    /\ queries.squeue
    /\ ~queries.sbatch
    /\ submitted_jobs = <<>>

----------------------------------------------------------------------------
(* Properties of completion resolution and of the metrics *)

Resolved == {"metrics", "done"}

\* The sacct response has a line of this job's main id that says COMPLETED.
MainLineCompleted(j) ==
    \E line \in sacct_result.lines :
        ~line.step /\ line.jid = j /\ line.state = "COMPLETED"

MarkedCompleted ==
    {k \in 1..Len(submitted_jobs) : finished_dict[submitted_jobs[k].jobid]}

ResolutionOutcome ==
    pc \in Resolved =>
        /\ DOMAIN finished_dict = AllJobids
        /\ \A k \in 1..Len(submitted_jobs) :
              LET j == submitted_jobs[k].jobid
              IN  /\ finished_dict[j] \in BOOLEAN
                  /\ finished_dict[j] <=> MainLineCompleted(j)
                  /\ ~sacct_result.ok => ~finished_dict[j]
                  /\ finished_dict[j] => cluster[j].state = "COMPLETED"
        /\ pc = "done" => finished_count = Cardinality(MarkedCompleted)

\* C11: once resolution has run, every record has an outcome, TRUE exactly
\* when the sacct response has a COMPLETED line of the job's main id (a job
\* the response leaves out, and every job when sacct fails, is FALSE), M is
\* the number of records marked TRUE, and the outcomes are set by the
\* resolution step and by no other.
C11_ResolutionOutcome ==
    /\ []ResolutionOutcome
    /\ [][finished_dict' /= finished_dict => pc = "resolve"]_vars

\* One job is marked completed; another that did complete is left out of
\* the response and marked not completed.
C11_Witness ==
    /\ pc = "done"
    /\ sacct_result.ok
    /\ \E j, k \in AllJobids :
          /\ finished_dict[j]
          /\ ~finished_dict[k]
          /\ cluster[k].state = "COMPLETED"
          /\ \A line \in sacct_result.lines : line.jid /= k

RECURSIVE GCD(_, _)
GCD(a, b) == IF b = 0 THEN a ELSE GCD(b, a % b)

\* A fraction of numerator >= 0 and denominator > 0 in lowest terms.
Lowest(f) == <<f[1] \div GCD(f[1], f[2]), f[2] \div GCD(f[1], f[2])>>

\* The fraction f has the value num / den.
FracIs(f, num, den) == Lowest(f) = Lowest(<<num, den>>)

\* The node-seconds of the first k records, completed ones only.
RECURSIVE CompletedNodeSeconds(_)
CompletedNodeSeconds(k) ==
    IF k = 0 THEN 0
    ELSE (IF finished_dict[submitted_jobs[k].jobid]
             THEN submitted_jobs[k].nodes * submitted_jobs[k].duration * 60
             ELSE 0)
         + CompletedNodeSeconds(k - 1)

\* C12: the throughput is M over the configured window in hours, 0 when the
\* window is not positive; the utilization is 100 times the node-seconds of
\* the completed jobs over total_nodes times the configured window in
\* seconds, 0 when that capacity is not positive; the worked example gives
\* 3600 node-seconds, 12.5 percent and 4 jobs an hour.
C12_MetricsMatchReference ==
    pc = "done" =>
        LET M == Cardinality(MarkedCompleted)
            sum == CompletedNodeSeconds(Len(submitted_jobs))
            capacity == total_nodes * total_test_seconds
        IN  /\ finished_count = M
            /\ sum_Nj_Tj = sum
            /\ IF total_test_seconds > 0
                  THEN FracIs(system_throughput,
                              M * 3600 * TicksPerSec, total_test_seconds)
                  ELSE FracIs(system_throughput, 0, 1)
            /\ IF capacity > 0
                  THEN FracIs(resource_utilization,
                              100 * sum * TicksPerSec, capacity)
                  ELSE FracIs(resource_utilization, 0, 1)
            /\ (/\ task_list = ExampleRun.tasks
                /\ total_nodes = ExampleRun.total_nodes
                /\ total_test_seconds = ExampleRun.total_test_seconds
                /\ M = 4) =>
                  /\ sum_Nj_Tj = 3600
                  /\ capacity = 28800 * TicksPerSec
                  /\ FracIs(resource_utilization, 125, 10)
                  /\ FracIs(system_throughput, 4, 1)

\* The metrics of a run that ended after the window end, with a completed
\* and a not completed job.
C12_Witness ==
    /\ pc = "done"
    /\ clock > end_time
    /\ MarkedCompleted /= {}
    /\ Cardinality(MarkedCompleted) < Len(submitted_jobs)
    /\ sum_Nj_Tj > 0

====
